---- MODULE Spec2Model ----
(***************************************************************************)
(* A model of gcbmanimation.layer.boundingbox.BoundingBox and of           *)
(* gcbmanimation.indicator.compositeindicator.CompositeIndicator.          *)
(*                                                                         *)
(* Rasters are records [h, w, data, nodata, gt]: data[r][c] is the pixel   *)
(* in row r and column c (both counted from 0, as numpy does), gt is the   *)
(* six-element GDAL geotransform.  The file system is the function `files` *)
(* from paths to rasters.  Python's None is the empty tuple <<>>, which is *)
(* falsy as None is; a list of four bounds is truthy.                      *)
(***************************************************************************)
EXTENDS Integers, Sequences, FiniteSets, TLC

VARIABLES
    files,       \* path -> raster: every raster file on disk
    bbox,        \* the BoundingBox object's fields
    inputLayers, \* the input Layer objects: id -> [path, year, interpretation]
    tmpCount,    \* number of paths TempFileManager.mktmp has handed out
    crops,       \* number of BoundingBox.crop calls made
    ret,         \* the last BoundingBox call: its name, argument and result
    patterns,    \* CompositeIndicator._patterns as the ordered items of the dict
    globFiles,   \* pattern -> the paths glob(pattern) returns
    composite,   \* CompositeIndicator._composite_layers
    provider,    \* CompositeIndicator._results_provider
    calls,       \* number of render_* calls made on the indicator
    builds,      \* number of times _init ran to completion (lines 77-86)
    blendLog,    \* the arguments of every LayerCollection.blend call so far
    outcome      \* how the last render_* call ended

bbvars == <<files, bbox, inputLayers, tmpCount, crops, ret>>
civars == <<patterns, globFiles, composite, provider, calls, builds, blendLog, outcome>>
vars == <<files, bbox, inputLayers, tmpCount, crops, ret,
          patterns, globFiles, composite, provider, calls, builds, blendLog, outcome>>

None == <<>>

Truthy(x) == x /= None

(***************************************************************************)
(* Bounds of the model.                                                    *)
(***************************************************************************)
MaxRows == 3

MaxCols == 2

MaxCrops == 2

Rows == 0 .. (MaxRows - 1)

Cols == 0 .. (MaxCols - 1)

LayerIds == {1, 2}

(* The nodata value and geotransform an input raster may declare.          *)
Profiles ==
    { [nodata |-> 0,   gt |-> <<0, 1, 0, 0, 0, -1>>],
      [nodata |-> 255, gt |-> <<100, 10, 0, 500, 0, -20>>] }

InPath(n) == [kind |-> "in", n |-> n]

TmpPath(n) == [kind |-> "tmp", n |-> n]

(* TempFileManager.mktmp: a fresh unique path per call.                    *)
mktmp(count) == TmpPath(count + 1)

(* Layer.nodata_value: the nodata value the backing raster declares.       *)
nodata_value(fs, path) == fs[path].nodata

(***************************************************************************)
(* BoundingBox.min_pixel_bounds, lines 31-47: the scan over the rows.      *)
(* b = <<x_min, x_max, y_min, y_max>> is the loop's state before row i.    *)
(***************************************************************************)
x_index(row, w, nd) == {c \in 0 .. (w - 1) : row[c] /= nd}

SetMin(S) == CHOOSE m \in S : \A e \in S : m <= e

SetMax(S) == CHOOSE m \in S : \A e \in S : m >= e

(* Lines 40-45: the update of the bounds by a row whose data columns are  *)
(* the non-empty set xi.                                                    *)
UpdateBounds(xi, i, b) ==
    << IF SetMin(xi) < b[1] THEN SetMin(xi) ELSE b[1],
       IF SetMax(xi) > b[2] THEN SetMax(xi) ELSE b[2],
       IF b[3] = 0 THEN i ELSE b[3],
       i >>

(* Lines 36-38: a row without data is skipped.                             *)
ScanRowOf(xi, i, b) == IF xi = {} THEN b ELSE UpdateBounds(xi, i, b)

ScanRow(raster, nd, i, b) ==
    ScanRowOf(x_index(raster.data[i], raster.w, nd), i, b)

RECURSIVE ScanRows(_, _, _, _)
ScanRows(raster, nd, i, b) ==
    IF i >= raster.h THEN b
    ELSE ScanRows(raster, nd, i + 1, ScanRow(raster, nd, i, b))

(* Line 47.                                                                *)
Widen(b) == <<b[1] - 1, b[2] + 1, b[3] - 1, b[4] + 1>>

ComputePixelBounds(raster, nd) ==
    Widen(ScanRows(raster, nd, 0, <<raster.w, 0, 0, 0>>))

(* Variant: the bounds are computed from the current file on every read.   *)
min_pixel_boundsNoCache(bb, fs) ==
    ComputePixelBounds(fs[bb._path], nodata_value(fs, bb._path))

(* The value the min_pixel_bounds property returns (lines 29-49).          *)
min_pixel_bounds(bb, fs) ==
    IF ~Truthy(bb._min_pixel_bounds)
    THEN ComputePixelBounds(fs[bb._path], nodata_value(fs, bb._path))
    ELSE bb._min_pixel_bounds

(***************************************************************************)
(* BoundingBox.min_geographic_bounds, lines 58-66.                         *)
(***************************************************************************)
(* Variant: the elements in the order of the pixel bounds.                 *)
ComputeGeographicBoundsSwapped(pb, gt) ==
    <<gt[1] + pb[1] * gt[2], gt[1] + pb[2] * gt[2],
      gt[4] + pb[3] * gt[6], gt[4] + pb[4] * gt[6]>>

ComputeGeographicBounds(pb, gt) ==
    << gt[1] + pb[1] * gt[2], gt[4] + pb[3] * gt[6],
       gt[1] + pb[2] * gt[2], gt[4] + pb[4] * gt[6] >>

min_geographic_bounds(bb, fs) ==
    IF ~Truthy(bb._min_geographic_bounds)
    THEN ComputeGeographicBounds(min_pixel_bounds(bb, fs), fs[bb._path].gt)
    ELSE bb._min_geographic_bounds

(***************************************************************************)
(* gdal.Translate(dst, src, projWin = <<ulx, uly, lrx, lry>>): the window  *)
(* of src in pixels, read into a new raster whose origin is the window's   *)
(* upper left corner.  Pixels of the window outside src take src's nodata  *)
(* value; the nodata value and the pixel size are src's.                   *)
(***************************************************************************)
Window(src, xoff, yoff, w, h, projWin) ==
    [h |-> h, w |-> w,
     data |-> [r \in 0 .. (h - 1) |-> [c \in 0 .. (w - 1) |->
                IF /\ yoff + r \in 0 .. (src.h - 1)
                   /\ xoff + c \in 0 .. (src.w - 1)
                THEN src.data[yoff + r][xoff + c]
                ELSE src.nodata]],
     nodata |-> src.nodata,
     gt |-> <<projWin[1], src.gt[2], 0, projWin[2], 0, src.gt[6]>>]

Translate(src, projWin) ==
    Window(src,
           (projWin[1] - src.gt[1]) \div src.gt[2],
           (src.gt[4] - projWin[2]) \div (-src.gt[6]),
           (projWin[3] - projWin[1]) \div src.gt[2],
           (projWin[2] - projWin[4]) \div (-src.gt[6]),
           projWin)

(***************************************************************************)
(* gdal_calc.Calc("A * (B != {0}) + ((B == {0}) * {1})".format(n0, n1),    *)
(* output, NoDataValue = outNDV, A = a, B = b).  A comparison is 1 or 0.   *)
(* gdal_calc then writes outNDV wherever a or b holds its own nodata.      *)
(***************************************************************************)
BoolToInt(cond) == IF cond THEN 1 ELSE 0

CalcExpr(A, B, n0, n1) == A * BoolToInt(B /= n0) + (BoolToInt(B = n0) * n1)

Calc(a, b, n0, n1, outNDV) ==
    [h |-> a.h, w |-> a.w,
     data |-> [r \in 0 .. (a.h - 1) |-> [c \in 0 .. (a.w - 1) |->
                IF a.data[r][c] = a.nodata \/ b.data[r][c] = b.nodata
                THEN outNDV
                ELSE CalcExpr(a.data[r][c], b.data[r][c], n0, n1)]],
     nodata |-> outNDV,
     gt |-> a.gt]

(* Layer(path, year, interpretation): the handle to one raster file.       *)
Layer(path, year, interpretation) ==
    [path |-> path, year |-> year, interpretation |-> interpretation]

(* BoundingBox.__init__, lines 17-21.                                      *)
BoundingBox(path) ==
    [_path |-> path, _year |-> 0, _interpretation |-> None,
     _min_pixel_bounds |-> None,
     _min_geographic_bounds |-> None,
     _initialized |-> FALSE]

(* The object after its min_pixel_bounds property was read (line 47).      *)
AfterMinPixelBounds(bb, fs) ==
    [bb EXCEPT !._min_pixel_bounds = min_pixel_bounds(bb, fs)]

(* The object after its min_geographic_bounds property was read: the       *)
(* pixel bounds are read (and cached) only when the geographic bounds      *)
(* are not cached yet (lines 57-66).                                       *)
AfterMinGeographicBounds(bb, fs) ==
    IF ~Truthy(bb._min_geographic_bounds)
    THEN [bb EXCEPT !._min_pixel_bounds = min_pixel_bounds(bb, fs),
                    !._min_geographic_bounds = min_geographic_bounds(bb, fs)]
    ELSE bb

(***************************************************************************)
(* BoundingBox.crop, lines 80-84: the self-crop.  The result is the        *)
(* object, the file system and the number of temporary paths afterwards.   *)
(***************************************************************************)
(* Variant: the initialization flag is not set.                            *)
MarkSelfCroppedNoFlag(bb, bbox_path) ==
    [bb EXCEPT !._path = bbox_path]

MarkSelfCropped(bb, bbox_path) ==
    [bb EXCEPT !._path = bbox_path, !._initialized = TRUE]

(* The file system with raster written to path.                            *)
Write(fs, path, raster) ==
    [p \in DOMAIN fs \cup {path} |-> IF p = path THEN raster ELSE fs[p]]

SelfCrop(bb, fs, count) ==
    IF ~bb._initialized
    THEN [bb |-> MarkSelfCropped(AfterMinGeographicBounds(bb, fs), mktmp(count)),
          fs |-> Write(fs, mktmp(count),
                       Translate(fs[bb._path], min_geographic_bounds(bb, fs))),
          count |-> count + 1]
    ELSE [bb |-> bb, fs |-> fs, count |-> count]

(* Lines 91-97: the mask expression and the gdal_calc call.                *)
(* Variant: the two nodata values exchanged.                               *)
MaskSwappedNodata(A, B, self_nodata, layer_nodata) ==
    Calc(A, B, layer_nodata, self_nodata, self_nodata)

Mask(A, B, self_nodata, layer_nodata) ==
    Calc(A, B, self_nodata, layer_nodata, layer_nodata)

(* Line 99: the Layer that crop returns.                                   *)
(* Variant: the returned Layer keeps the input's path.                     *)
CroppedLayerInputPath(output_path, layer) ==
    Layer(layer.path, layer.year, layer.interpretation)

CroppedLayer(output_path, layer) ==
    Layer(output_path, layer.year, layer.interpretation)

(***************************************************************************)
(* BoundingBox.crop, lines 80-101, as one step.  The result holds the      *)
(* object, the file system and the number of temporary paths after the     *)
(* call, the returned Layer and the path of the windowed input.            *)
(* Lines 86-88 are ClipToArea, lines 90-99 ClipToMask.                     *)
(***************************************************************************)
ClipToMask(bb, fs, count, tmp_path, output_path, layer) ==
    [bb |-> bb, count |-> count,
     fs |-> Write(fs, output_path,
                  Mask(fs[tmp_path], fs[bb._path],
                       nodata_value(fs, bb._path), nodata_value(fs, layer.path))),
     value |-> CroppedLayer(output_path, layer),
     tmp_path |-> tmp_path]

ClipToArea(bb, fs, count, tmp_path, output_path, layer) ==
    ClipToMask(AfterMinGeographicBounds(bb, fs),
               Write(fs, tmp_path,
                     Translate(fs[layer.path], min_geographic_bounds(bb, fs))),
               count, tmp_path, output_path, layer)

ClipFrom(s, layer) ==
    ClipToArea(s.bb, s.fs, s.count + 2, mktmp(s.count), mktmp(s.count + 1), layer)

crop(bb, fs, count, layer) == ClipFrom(SelfCrop(bb, fs, count), layer)

(***************************************************************************)
(* The bounding box specification: one BoundingBox over a raster with at   *)
(* least one data pixel, and the input layers it is asked to crop.  A      *)
(* raster without any data pixel gives the bounds [w-1, 1, -1, 1], a       *)
(* window gdal.Translate cannot read when w > 1; it is left out.           *)
(***************************************************************************)
DataValue(nodata) == IF nodata = 0 THEN 1 ELSE 0

BBoxRasters(profile) ==
    { [h |-> MaxRows, w |-> MaxCols, data |-> d,
       nodata |-> profile.nodata, gt |-> profile.gt] :
      d \in { g \in [Rows -> [Cols -> {profile.nodata, DataValue(profile.nodata)}]] :
                \E r \in Rows : \E c \in Cols : g[r][c] /= profile.nodata } }

(* Input layer k: its own nodata value -k; its pixels run through its      *)
(* nodata value, the bounding box's nodata value and another value.        *)
LayerPixel(k, r, c, profile) ==
    LET v == (r * MaxCols + c + k) % 3
    IN  IF v = 0 THEN -k ELSE IF v = 1 THEN profile.nodata ELSE 5 + k

LayerRaster(k, profile) ==
    [h |-> MaxRows, w |-> MaxCols,
     data |-> [r \in Rows |-> [c \in Cols |-> LayerPixel(k, r, c, profile)]],
     nodata |-> -k, gt |-> profile.gt]

Interpretation(k) == IF k % 2 = 1 THEN <<"absolute">> ELSE None

NoCall == [op |-> "none", layer |-> 0, value |-> None, tmp_path |-> None]

CIIdle ==
    /\ patterns = <<>>
    /\ globFiles = <<>>
    /\ composite = [kind |-> "None"]
    /\ provider = [kind |-> "None"]
    /\ calls = 0
    /\ builds = 0
    /\ blendLog = <<>>
    /\ outcome = [call |-> "none", result |-> "none", pattern |-> <<>>,
                  ran |-> FALSE, blends |-> 0]

InitBB ==
    /\ \E profile \in Profiles : \E raster \in BBoxRasters(profile) :
          files = [p \in {InPath(0)} \cup {InPath(k) : k \in LayerIds} |->
                     IF p = InPath(0) THEN raster ELSE LayerRaster(p.n, profile)]
    /\ bbox = BoundingBox(InPath(0))
    /\ inputLayers = [k \in LayerIds |-> Layer(InPath(k), 2000 + k, Interpretation(k))]
    /\ tmpCount = 0
    /\ crops = 0
    /\ ret = NoCall
    /\ CIIdle

ReadMinPixelBounds ==
    /\ bbox' = AfterMinPixelBounds(bbox, files)
    /\ ret' = [op |-> "min_pixel_bounds", layer |-> 0,
               value |-> min_pixel_bounds(bbox, files), tmp_path |-> None]
    /\ UNCHANGED <<files, inputLayers, tmpCount, crops>>
    /\ UNCHANGED civars

ReadMinGeographicBounds ==
    /\ bbox' = AfterMinGeographicBounds(bbox, files)
    /\ ret' = [op |-> "min_geographic_bounds", layer |-> 0,
               value |-> min_geographic_bounds(bbox, files), tmp_path |-> None]
    /\ UNCHANGED <<files, inputLayers, tmpCount, crops>>
    /\ UNCHANGED civars

Crop(k) ==
    /\ crops < MaxCrops
    /\ \E c \in {crop(bbox, files, tmpCount, inputLayers[k])} :
          /\ bbox' = c.bb
          /\ files' = c.fs
          /\ tmpCount' = c.count
          /\ ret' = [op |-> "crop", layer |-> k, value |-> c.value,
                     tmp_path |-> c.tmp_path]
    /\ crops' = crops + 1
    /\ UNCHANGED inputLayers
    /\ UNCHANGED civars

NextBB ==
    \/ ReadMinPixelBounds
    \/ ReadMinGeographicBounds
    \/ \E k \in LayerIds : Crop(k)

SpecBB == InitBB /\ [][NextBB]_vars

(***************************************************************************)
(* CompositeIndicator.  A file path is the sequence of its characters.     *)
(* A LayerCollection is [kind, layers, palette, background_color]; it is   *)
(* falsy when it holds no layers, which line 95 relies on.                 *)
(***************************************************************************)
MaxPatterns == 2

MaxCalls == 3

Years == { <<"2","0","0","1">>, <<"2","0","0","2">> }

(* Three patterns of files with an extension, and one of files without   *)
(* extension in a directory whose name holds a dot.                        *)
PatternPool ==
    { <<c, "_", "*", ".", "t", "i", "f">> : c \in {"A", "B", "C"} }
        \cup { <<"o", ".", "d", "/", "D", "_", "*">> }

BlendModes == {"Add", "Subtract"}

(* The file that pattern p matches for year y: A_*.tif gives A_2001.tif.   *)
RECURSIVE FileOf(_, _)
FileOf(p, y) ==
    IF p = <<>> THEN <<>>
    ELSE (IF Head(p) = "*" THEN y ELSE <<Head(p)>>) \o FileOf(Tail(p), y)

NoneObject == [kind |-> "None"]

LayerCollection(ls) ==
    [kind |-> "LayerCollection", layers |-> ls,
     palette |-> "Greens", background_color |-> <<255, 255, 255>>]

(* Python's truth value of None or of a LayerCollection.                   *)
IsTrue(obj) == obj.kind /= "None" /\ Len(obj.layers) > 0

(* path.rfind(ch), counted from 1; 0 when ch does not occur.               *)
RECURSIVE LastIndex(_, _, _)
LastIndex(path, ch, i) ==
    IF i = 0 THEN 0
    ELSE IF path[i] = ch THEN i ELSE LastIndex(path, ch, i - 1)

(* genericpath._splitext: the extension starts at the last dot, when that  *)
(* dot lies after the last separator and some character of the file name   *)
(* before it is not a dot; otherwise the path has no extension.            *)
SplitAt(path, sepIndex, dotIndex) ==
    IF /\ dotIndex > sepIndex
       /\ \E k \in (sepIndex + 1) .. (dotIndex - 1) : path[k] /= "."
    THEN SubSeq(path, 1, dotIndex - 1)
    ELSE path

(* os.path.splitext(path)[0].                                              *)
splitext0(path) ==
    SplitAt(path, LastIndex(path, "/", Len(path)), LastIndex(path, ".", Len(path)))

(* s[-4:]                                                                  *)
Last4(s) == IF Len(s) <= 4 THEN s ELSE SubSeq(s, Len(s) - 3, Len(s))

(* A discovered layer (lines 91-92) and a blended one: its year and the    *)
(* source rasters combined into it, each with the mode it came in by.      *)
FoundLayer(layer_path) ==
    [year |-> Last4(splitext0(layer_path)),
     terms |-> << [mode |-> "source", path |-> layer_path] >>]

RECURSIVE FindYear(_, _, _)
FindYear(ls, year, i) ==
    IF i > Len(ls) THEN 0
    ELSE IF ls[i].year = year THEN i ELSE FindYear(ls, year, i + 1)

(* LayerCollection.blend(other, mode): a new collection with, for each     *)
(* year of self, the layer blended with other's layer of that year, or     *)
(* left as it is when other has none; an empty self takes other's layers.  *)
blend(self, other, mode) ==
    IF Len(self.layers) = 0
    THEN LayerCollection([i \in 1 .. Len(other.layers) |->
            [year |-> other.layers[i].year,
             terms |-> << [mode |-> mode, path |-> other.layers[i].terms[1].path] >>]])
    ELSE LayerCollection([i \in 1 .. Len(self.layers) |->
            LET j == FindYear(other.layers, self.layers[i].year, 1)
            IN  IF j = 0 THEN self.layers[i]
                ELSE [year |-> self.layers[i].year,
                      terms |-> Append(self.layers[i].terms,
                                  [mode |-> mode,
                                   path |-> other.layers[j].terms[1].path])]])

(***************************************************************************)
(* CompositeIndicator._find_layers, lines 88-98: the collection found, or  *)
(* the IOError raised.                                                     *)
(***************************************************************************)
(* Variant: no check of the discovery result.                              *)
_find_layersNoCheck(glob, pattern) ==
    [raised |-> FALSE, pattern |-> pattern,
     layers |-> LayerCollection([i \in 1 .. Len(glob[pattern]) |->
                                   FoundLayer(glob[pattern][i])])]

_find_layers(glob, pattern) ==
    LET found == LayerCollection([i \in 1 .. Len(glob[pattern]) |->
                                    FoundLayer(glob[pattern][i])])
    IN  IF ~IsTrue(found)
        THEN [raised |-> TRUE, pattern |-> pattern, layers |-> found]
        ELSE [raised |-> FALSE, pattern |-> pattern, layers |-> found]

(***************************************************************************)
(* CompositeIndicator._init, lines 80-82: the loop from item i on, with    *)
(* acc the composite so far and log the blend calls made so far.           *)
(***************************************************************************)
RECURSIVE Fold(_, _, _, _, _)
Fold(items, glob, i, acc, log) ==
    IF i > Len(items)
    THEN [raised |-> FALSE, pattern |-> <<>>, composite |-> acc, log |-> log]
    ELSE LET found == _find_layers(glob, items[i].pattern)
         IN  IF found.raised
             THEN [raised |-> TRUE, pattern |-> found.pattern,
                   composite |-> acc, log |-> log]
             ELSE Fold(items, glob, i + 1,
                       blend(acc, found.layers, items[i].blend_mode),
                       Append(log, [self |-> acc, other |-> found.layers,
                                    mode |-> items[i].blend_mode]))

(* The indicator after _init (lines 75-86): ran tells whether the body     *)
(* was entered, raised whether it left by the IOError of _find_layers.     *)
_init(items, glob, comp, prov) ==
    IF ~IsTrue(comp)
    THEN LET f == Fold(items, glob, 1, LayerCollection(<<>>), <<>>)
         IN  [ran |-> TRUE, raised |-> f.raised, pattern |-> f.pattern,
              composite |-> f.composite, log |-> f.log,
              provider |-> IF f.raised THEN prov
                           ELSE [kind |-> "SpatialGcbmResultsProvider",
                                 layers |-> f.composite.layers,
                                 per_hectare |-> TRUE]]
    ELSE [ran |-> FALSE, raised |-> FALSE, pattern |-> <<>>,
          composite |-> comp, log |-> <<>>, provider |-> prov]

(* The ordered items of a patterns dict: its keys are distinct.            *)
PatternItems ==
    { s \in UNION { [1 .. n -> [pattern : PatternPool, blend_mode : BlendModes]] :
                      n \in 0 .. MaxPatterns } :
        \A i, j \in 1 .. Len(s) : i /= j => s[i].pattern /= s[j].pattern }

(* What glob may return for pattern p: the matching files, in any order.  *)
GlobResults(p) ==
    { <<>> } \cup { <<FileOf(p, y)>> : y \in Years }
             \cup { <<FileOf(p, yy[1]), FileOf(p, yy[2])>> :
                      yy \in { q \in Years \X Years : q[1] /= q[2] } }

BBIdle ==
    /\ files = <<>>
    /\ bbox = BoundingBox(InPath(0))
    /\ inputLayers = <<>>
    /\ tmpCount = 0
    /\ crops = 0
    /\ ret = NoCall

InitCI ==
    /\ patterns \in PatternItems
    /\ \E used \in {{patterns[i].pattern : i \in 1 .. Len(patterns)}} :
          \E g \in [used -> UNION {GlobResults(p) : p \in used}] :
             /\ \A p \in used : g[p] \in GlobResults(p)
             /\ globFiles = g
    /\ composite = NoneObject
    /\ provider = NoneObject
    /\ calls = 0
    /\ builds = 0
    /\ blendLog = <<>>
    /\ outcome = [call |-> "none", result |-> "none", pattern |-> <<>>,
                  ran |-> FALSE, blends |-> 0]
    /\ BBIdle

(* The state change of a render_* call up to the return of self._init().   *)
DoInit(call, i) ==
    /\ composite' = i.composite
    /\ provider' = i.provider
    /\ blendLog' = blendLog \o i.log
    /\ builds' = IF i.ran /\ ~i.raised THEN builds + 1 ELSE builds
    /\ calls' = calls + 1
    /\ UNCHANGED <<patterns, globFiles>>
    /\ UNCHANGED bbvars

(* render_map_frames, lines 56-59.                                         *)
render_map_frames ==
    /\ calls < MaxCalls
    /\ LET i == _init(patterns, globFiles, composite, provider)
       IN  /\ DoInit("render_map_frames", i)
           /\ outcome' = [call |-> "render_map_frames",
                          result |-> IF i.raised THEN "IOError"
                                     ELSE IF i.provider.kind = "None"
                                          THEN "AttributeError"
                                          ELSE "frames",
                          pattern |-> i.pattern, ran |-> i.ran,
                          blends |-> Len(i.log)]

(* render_graph_frames, lines 70-73: the plot is made over whatever        *)
(* self._results_provider holds.                                           *)
render_graph_frames ==
    /\ calls < MaxCalls
    /\ LET i == _init(patterns, globFiles, composite, provider)
       IN  /\ DoInit("render_graph_frames", i)
           /\ outcome' = [call |-> "render_graph_frames",
                          result |-> IF i.raised THEN "IOError"
                                     ELSE IF i.provider.kind = "None"
                                          THEN "plot over None"
                                          ELSE "frames",
                          pattern |-> i.pattern, ran |-> i.ran,
                          blends |-> Len(i.log)]

NextCI ==
    \/ render_map_frames
    \/ render_graph_frames

SpecCI == InitCI /\ [][NextCI]_vars

(***************************************************************************)
(* Properties of BoundingBox, checked under SpecBB.                        *)
(***************************************************************************)
Original == files[InPath(0)]

DataPixels(raster) ==
    { rc \in (0 .. (raster.h - 1)) \X (0 .. (raster.w - 1)) :
        raster.data[rc[1]][rc[2]] /= raster.nodata }

RowsOf(S) == { rc[1] : rc \in S }

ColsOf(S) == { rc[2] : rc \in S }

IsRectangle(S) ==
    /\ S /= {}
    /\ S = (SetMin(RowsOf(S)) .. SetMax(RowsOf(S)))
             \X (SetMin(ColsOf(S)) .. SetMax(ColsOf(S)))

(* C1: when the non-nodata pixels of the raster form the rectangle of rows *)
(* r0..r1 and columns c0..c1, wherever it lies in the grid, the value      *)
(* min_pixel_bounds returns is [c0-1, c1+1, r0-1, r1+1].                   *)
C1_RectangleBounds ==
    (ret.op = "min_pixel_bounds" /\ IsRectangle(DataPixels(Original))) =>
        LET S == DataPixels(Original)
        IN  ret.value = << SetMin(ColsOf(S)) - 1, SetMax(ColsOf(S)) + 1,
                           SetMin(RowsOf(S)) - 1, SetMax(RowsOf(S)) + 1 >>

(* C9: the box [x_lo, x_hi, y_lo, y_hi] min_pixel_bounds returns surrounds *)
(* every non-nodata pixel: x_lo <= c <= x_hi and y_lo <= r <= y_hi.        *)
C9_BoxSurroundsData ==
    ret.op = "min_pixel_bounds" =>
        \A rc \in DataPixels(Original) :
            /\ ret.value[1] <= rc[2] /\ rc[2] <= ret.value[2]
            /\ ret.value[3] <= rc[1] /\ rc[1] <= ret.value[4]

(* C8: min_geographic_bounds is the raster's affine transform applied to   *)
(* the pixel bounds [x_min, x_max, y_min, y_max], in the element order     *)
(* [x_min_proj, y_min_proj, x_max_proj, y_max_proj].                       *)
C8_GeographicBounds ==
    ret.op = "min_geographic_bounds" =>
        LET pb == bbox._min_pixel_bounds
            origin_x == Original.gt[1]
            x_size   == Original.gt[2]
            origin_y == Original.gt[4]
            y_size   == Original.gt[6]
        IN  /\ Len(pb) = 4
            /\ ret.value = << origin_x + pb[1] * x_size, origin_y + pb[3] * y_size,
                              origin_x + pb[2] * x_size, origin_y + pb[4] * y_size >>
            /\ bbox._min_geographic_bounds = ret.value

C8_Witness ==
    /\ ret.op = "min_geographic_bounds"
    /\ bbox._initialized
    /\ Original.gt[1] = 100
    /\ ret.value[1] /= ret.value[3]
    /\ ret.value[2] /= ret.value[4]

(* C6: once cached, the pixel bounds and the geographic bounds are those   *)
(* of the original raster, whatever file the object points to by then,     *)
(* and a cached value never changes.                                       *)
C6_BoundsOfOriginal ==
    /\ Truthy(bbox._min_pixel_bounds) =>
          bbox._min_pixel_bounds = ComputePixelBounds(Original, Original.nodata)
    /\ Truthy(bbox._min_geographic_bounds) =>
          bbox._min_geographic_bounds =
              ComputeGeographicBounds(
                  ComputePixelBounds(Original, Original.nodata), Original.gt)

C6_CachedBoundsStable ==
    [][ /\ Truthy(bbox._min_pixel_bounds) =>
              bbox'._min_pixel_bounds = bbox._min_pixel_bounds
        /\ Truthy(bbox._min_geographic_bounds) =>
              bbox'._min_geographic_bounds = bbox._min_geographic_bounds ]_vars

(* C6: both parts: the cached bounds are always those of the original      *)
(* raster, and no step changes a cached value.                             *)
C6_CachedBounds == []C6_BoundsOfOriginal /\ C6_CachedBoundsStable

(* The bounds are read after the self-crop, whose file would give others.  *)
C6_Witness ==
    /\ crops >= 1
    /\ ret.op = "min_pixel_bounds"
    /\ bbox._path /= InPath(0)
    /\ ret.value /= ComputePixelBounds(files[bbox._path], files[bbox._path].nodata)

(* C3: the first crop call moves the bounding box to a fresh temporary     *)
(* file holding the original windowed to its geographic bounds; every      *)
(* later crop call, and every other call, leaves the path as it is.        *)
C3_SelfCropOnce ==
    [][ IF crops' = crops + 1 /\ crops = 0
        THEN /\ bbox'._path /= bbox._path
             /\ bbox'._path \notin DOMAIN files
             /\ bbox'._path.kind = "tmp"
             /\ files'[bbox'._path] =
                    Translate(files[bbox._path], bbox'._min_geographic_bounds)
        ELSE bbox'._path = bbox._path ]_vars

C3_Witness ==
    /\ crops >= 2
    /\ ret.op = "crop"
    /\ bbox._initialized
    /\ bbox._path = TmpPath(1)

(* C2: the raster crop returns has, pixel by pixel, the windowed input's   *)
(* value where the bounding box's pixel is not its nodata value, and the   *)
(* input layer's nodata value where it is.                                 *)
C2_MaskRule ==
    ret.op = "crop" =>
        LET A   == files[ret.tmp_path]
            B   == files[bbox._path]
            out == files[ret.value.path]
            layer_nodata == files[inputLayers[ret.layer].path].nodata
        IN  /\ A = Translate(files[inputLayers[ret.layer].path],
                             bbox._min_geographic_bounds)
            /\ A.h = B.h /\ A.w = B.w /\ A.gt = B.gt
            /\ out.h = A.h /\ out.w = A.w
            /\ \A r \in 0 .. (A.h - 1) : \A c \in 0 .. (A.w - 1) :
                  out.data[r][c] = IF B.data[r][c] /= B.nodata
                                   THEN A.data[r][c]
                                   ELSE layer_nodata

C2_Witness ==
    /\ ret.op = "crop"
    /\ LET A == files[ret.tmp_path]
           B == files[bbox._path]
       IN  /\ \E r \in 0 .. (A.h - 1) : \E c \in 0 .. (A.w - 1) :
                 B.data[r][c] = B.nodata /\ A.data[r][c] /= A.nodata
           /\ \E r \in 0 .. (A.h - 1) : \E c \in 0 .. (A.w - 1) :
                 B.data[r][c] /= B.nodata /\ A.data[r][c] /= A.nodata
           /\ \E r \in 0 .. (A.h - 1) : \E c \in 0 .. (A.w - 1) :
                 B.data[r][c] /= B.nodata /\ A.data[r][c] = B.nodata

(* C7: a crop call leaves the input layers and every existing file as      *)
(* they were; the layer it returns has the input's year and                *)
(* interpretation and a path that no file, layer or object had before.     *)
C7_CropFrame ==
    [][ crops' = crops + 1 =>
          LET layer == inputLayers[ret'.layer]
          IN  /\ inputLayers' = inputLayers
              /\ \A p \in DOMAIN files : p \in DOMAIN files' /\ files'[p] = files[p]
              /\ ret'.value.year = layer.year
              /\ ret'.value.interpretation = layer.interpretation
              /\ ret'.value.path \notin DOMAIN files
              /\ ret'.value.path \in DOMAIN files'
              /\ ret'.value.path.kind = "tmp"
              /\ ret'.value.path /= layer.path
              /\ ret'.value.path /= bbox._path
              /\ ret'.value.path /= bbox'._path
              /\ ret'.value.path /= ret'.tmp_path ]_vars

C7_Witness ==
    /\ crops = 2
    /\ ret.op = "crop"
    /\ ret.value.interpretation = <<"absolute">>
    /\ ret.value.path = TmpPath(5)
    /\ inputLayers[ret.layer].path = InPath(ret.layer)

(***************************************************************************)
(* Properties of CompositeIndicator, checked under SpecCI.                 *)
(***************************************************************************)
(* C4: over any sequence of render_map_frames and render_graph_frames      *)
(* calls, for any patterns, the composite is constructed at most once.     *)
C4_BuiltAtMostOnce == builds <= 1

RECURSIVE FirstUnmatched(_)
FirstUnmatched(i) ==
    IF i > Len(patterns) THEN 0
    ELSE IF globFiles[patterns[i].pattern] = <<>> THEN i ELSE FirstUnmatched(i + 1)

(* C5: no empty discovery result is ever passed to blend; the IOError of   *)
(* a pattern that matches no file names that pattern and is raised after   *)
(* the blends of the patterns before it only.                              *)
C5_RejectedBeforeBlend ==
    /\ \A i \in 1 .. Len(blendLog) : Len(blendLog[i].other.layers) > 0
    /\ outcome.result = "IOError" =>
          /\ FirstUnmatched(1) > 0
          /\ outcome.pattern = patterns[FirstUnmatched(1)].pattern
          /\ outcome.blends = FirstUnmatched(1) - 1
    /\ (outcome.ran /\ FirstUnmatched(1) > 0) => outcome.result = "IOError"

C5_Witness ==
    /\ outcome.result = "IOError"
    /\ outcome.blends >= 1
    /\ Len(blendLog) >= 1

(* C10: when _init raises IOError the indicator is left unbuilt, so that a *)
(* later call builds again; no call goes on with the results provider      *)
(* unset.                                                                  *)
C10_AllOrNothing ==
    /\ outcome.result = "IOError" => ~IsTrue(composite)
    /\ outcome.result \notin {"AttributeError", "plot over None"}

====
